---- MODULE Spec2Model ----
(***************************************************************************)
(* SoftDesk: the authorization of requests against the Project -> Issue -> *)
(* Comment hierarchy (softdesk/project) as a state machine over the stored *)
(* rows.  One action per routed view; each action runs the whole request:  *)
(* permission check, object lookup, object permission, serializer          *)
(* validation and the perform_* hook.  The accounts of softdesk/users and  *)
(* their soft delete are a second machine over the same variables.         *)
(***************************************************************************)
EXTENDS Integers, FiniteSets, TLC

(* ------------------------------ bounds -------------------------------- *)
NumUsers == 2
MaxProjects == 2
MaxIssues == 1
MaxComments == 1
MaxInFlight == 2
MaxAccounts == 2

(* ----------------------------- vocabulary ----------------------------- *)
None == 0

Users == 1..NumUsers

ProjectIds == 1..MaxProjects

IssueIds == 1..MaxIssues

CommentIds == 1..MaxComments

SAFE_METHODS == {"GET", "HEAD", "OPTIONS"}

Methods == {"GET", "HEAD", "OPTIONS", "POST", "PUT", "PATCH", "DELETE"}

VARIABLES
    projects,       \* Project rows: id -> [author]
    issues,         \* Issue rows: id -> [project, author, assignee]
    comments,       \* Comment rows: id -> [issue, author]
    contributors,   \* Contributor rows: <<user, project>> -> number of rows
    nextId,         \* next primary key of each table
    inflight,       \* contributor creations validated and not yet saved:
                    \* <<user, project>> -> number of requests
    last,           \* the request being answered and its outcome
    pre,            \* the stored rows when that request arrived
    scenario,       \* how far the answered requests have gone through the
                    \* sequence create, refused read, add, read, update
    accounts,       \* User rows: id -> [username, email, usable_password,
                    \* can_be_contacted, can_data_be_shared, age]
    lastUser,       \* the /users/ request being answered and its outcome
    preAccounts     \* the User rows when that request arrived

userVars == <<accounts, lastUser, preAccounts>>

vars == <<projects, issues, comments, contributors, nextId, inflight, last, pre,
          scenario, userVars>>

DB == [projects |-> projects, issues |-> issues, comments |-> comments,
       contributors |-> contributors]

(* ------------------------------ queries ------------------------------- *)
\* Project.objects.filter(pk=project_pk).exists()
ProjectExists(d, project_pk) == project_pk \in DOMAIN d.projects

\* Issue.objects.filter(pk=issue_pk, project_id=project_pk).exists()
IssueInProject(d, issue_pk, project_pk) ==
    /\ issue_pk \in DOMAIN d.issues
    /\ d.issues[issue_pk].project = project_pk

\* Comment.objects.filter(issue__project_id=project_pk, issue_id=issue_pk)
CommentQueryset(d, project_pk, issue_pk) ==
    {c \in DOMAIN d.comments :
        /\ d.comments[c].issue = issue_pk
        /\ d.comments[c].issue \in DOMAIN d.issues
        /\ d.issues[d.comments[c].issue].project = project_pk}

\* mutant: the issues are not filtered by the project of the URL
IssueQueryset_AllProjects(d, project_pk) == DOMAIN d.issues

\* Issue.objects.filter(project_id=project_pk)
IssueQueryset(d, project_pk) ==
    {i \in DOMAIN d.issues : d.issues[i].project = project_pk}

\* mutant: the membership lookup filters on the user only
Memberships_AnyProject(d, user, project_pk) ==
    IF \E p \in ProjectIds : d.contributors[<<user, p>>] > 0 THEN 1 ELSE 0

\* Contributor.objects.filter(user=user, project=project_pk).count();
\* rows of one pair differ in their id only and are counted
Memberships(d, user, project_pk) ==
    IF <<user, project_pk>> \in DOMAIN d.contributors
        THEN d.contributors[<<user, project_pk>>] ELSE 0

\* Project.objects.filter(pk=project_pk, contributors__user=user).exists()
IsContributor(d, user, project_pk) ==
    /\ project_pk \in DOMAIN d.projects
    /\ Memberships(d, user, project_pk) > 0


(* ----------------------------- permissions ---------------------------- *)
\* mutant: the root routes ask for a membership in some project
HasPermission_RootMembers(d, user, method, project_pk, issue_pk) ==
    IF project_pk = None
        THEN (IF \E p \in DOMAIN d.projects : IsContributor(d, user, p)
                THEN "Allow" ELSE "Deny")
    ELSE IF ~ProjectExists(d, project_pk) THEN "NotFound"
    ELSE IF issue_pk # None /\ ~IssueInProject(d, issue_pk, project_pk)
        THEN "NotFound"
    ELSE IF method \in SAFE_METHODS \/ method = "POST"
        THEN (IF IsContributor(d, user, project_pk) THEN "Allow" ELSE "Deny")
    ELSE "Allow"

\* mutant: the role check of the nested routes is left out
HasPermission_NoRoleCheck(d, user, method, project_pk, issue_pk) ==
    IF project_pk = None THEN "Allow"
    ELSE IF ~ProjectExists(d, project_pk) THEN "NotFound"
    ELSE IF issue_pk # None /\ ~IssueInProject(d, issue_pk, project_pk)
        THEN "NotFound"
    ELSE "Allow"

\* mutant: the role check runs before the existence checks
HasPermission_RoleFirst(d, user, method, project_pk, issue_pk) ==
    IF project_pk = None THEN "Allow"
    ELSE IF (method \in SAFE_METHODS \/ method = "POST")
            /\ ~IsContributor(d, user, project_pk) THEN "Deny"
    ELSE IF ~ProjectExists(d, project_pk) THEN "NotFound"
    ELSE IF issue_pk # None /\ ~IssueInProject(d, issue_pk, project_pk)
        THEN "NotFound"
    ELSE "Allow"

\* ProjectPermission.has_permission: "NotFound" when a parent named in the
\* URL is missing, otherwise whether the view-level check passes.
\* project_pk = None on the root routes; issue_pk = None off the comment routes.
HasPermission(d, user, method, project_pk, issue_pk) ==
    IF project_pk = None THEN "Allow"
    ELSE IF ~ProjectExists(d, project_pk) THEN "NotFound"
    ELSE IF issue_pk # None /\ ~IssueInProject(d, issue_pk, project_pk)
        THEN "NotFound"
    ELSE IF method \in SAFE_METHODS \/ method = "POST"
        THEN (IF IsContributor(d, user, project_pk) THEN "Allow" ELSE "Deny")
    ELSE "Allow"

\* ProjectPermission.get_project: the URL's project when there is one,
\* otherwise the project found from the object.
GetProject(project_pk, obj_project) ==
    IF project_pk # None THEN project_pk ELSE obj_project

\* mutant: the author may read without a membership
HasObjectPermission_AuthorReads(d, user, method, project, obj_author) ==
    IF method \in SAFE_METHODS
        THEN Memberships(d, user, project) > 0 \/ obj_author = user
        ELSE obj_author = user

\* mutant: any contributor may write
HasObjectPermission_ContributorWrites(d, user, method, project, obj_author) ==
    IF method \in SAFE_METHODS
        THEN Memberships(d, user, project) > 0
        ELSE obj_author = user \/ Memberships(d, user, project) > 0

\* mutant: a write asks for the membership as well as the authorship
HasObjectPermission_Compound(d, user, method, project, obj_author) ==
    IF method \in SAFE_METHODS
        THEN Memberships(d, user, project) > 0
        ELSE obj_author = user /\ Memberships(d, user, project) > 0

\* ProjectPermission.has_object_permission
HasObjectPermission(d, user, method, project, obj_author) ==
    IF method \in SAFE_METHODS
        THEN Memberships(d, user, project) > 0
        ELSE obj_author = user

(* ------------------------------ dispatch ------------------------------ *)
\* the handler a ModelViewSet route binds to a method ("none": 405)
Handler(detail, method) ==
    IF method = "OPTIONS" THEN "metadata"
    ELSE IF detail THEN
        CASE method \in {"GET", "HEAD"} -> "retrieve"
          [] method = "PUT" -> "update"
          [] method = "PATCH" -> "partial_update"
          [] method = "DELETE" -> "destroy"
          [] OTHER -> "none"
    ELSE
        CASE method \in {"GET", "HEAD"} -> "list"
          [] method = "POST" -> "create"
          [] OTHER -> "none"

\* the outcome of an item handler once its object is known
ItemOutcome(handler, valid) ==
    CASE handler = "retrieve" -> "OK"
      [] handler \in {"update", "partial_update"} ->
            IF valid THEN "OK" ELSE "BadRequest"
      [] handler = "destroy" -> "NoContent"

\* the outcome of a collection handler
CollectionOutcome(handler, valid) ==
    CASE handler = "list" -> "OK"
      [] handler = "create" -> IF valid THEN "Created" ELSE "BadRequest"

\* a ModelViewSet request: view permission, handler lookup, get_object
\* (404), object permission (403), serializer validation (400)
Outcome(perm, handler, found, allowed, valid) ==
    IF perm = "NotFound" THEN "NotFound"
    ELSE IF perm = "Deny" THEN "Forbidden"
    ELSE IF handler = "metadata" THEN "OK"
    ELSE IF handler = "none" THEN "MethodNotAllowed"
    ELSE IF handler \in {"list", "create"} THEN CollectionOutcome(handler, valid)
    ELSE IF ~found THEN "NotFound"
    ELSE IF ~allowed THEN "Forbidden"
    ELSE ItemOutcome(handler, valid)

\* a request: the route, the method, the authenticated user, the ids of the
\* path, and of the body the assignee, the project (of a membership) and the
\* identity it gives for author (on /contributors/, for user)
Request(view, detail, method, user, project_pk, issue_pk, pk, assignee, project, identity) ==
    [view |-> view, detail |-> detail, method |-> method, user |-> user,
     project_pk |-> project_pk, issue_pk |-> issue_pk, pk |-> pk,
     assignee |-> assignee, project |-> project, identity |-> identity,
     parent |-> None]

\* the request with the parent its body names: `project` of an issue,
\* `issue` of a comment
WithParent(req, parent) == [req EXCEPT !.parent = parent]

Respond(req, outcome) ==
    [view |-> req.view, detail |-> req.detail, method |-> req.method,
     user |-> req.user, project_pk |-> req.project_pk,
     issue_pk |-> req.issue_pk, pk |-> req.pk, assignee |-> req.assignee,
     project |-> req.project, identity |-> req.identity,
     parent |-> req.parent, outcome |-> outcome]

\* no request is being answered
Idle == Respond(Request("none", FALSE, "GET", None, None, None, None, None, None,
                        None), "none")

Empty == [k \in {} |-> None]

NoRows == [projects |-> Empty, issues |-> Empty, comments |-> Empty,
           contributors |-> [k \in Users \X ProjectIds |-> 0]]

\* the request body matters to create and update only
Writes(method) == method \in {"POST", "PUT", "PATCH"}

\* rows of table t without the keys in gone
Without(t, gone) == [k \in (DOMAIN t) \ gone |-> t[k]]

NoChange == UNCHANGED <<projects, issues, comments, contributors, nextId>>

(* the sequence of section 8: a project is created (stage 1), a user other
   than its author is refused its detail (2), that user becomes a contributor
   of it (3), asks for the detail again (4), then tries to write the project
   (5). The record keeps who acted; it is not looked at by any handler. *)
Off == [stage |-> -1, project |-> None, alice |-> None, bob |-> None,
        adder |-> None, read |-> "none"]

Start == [Off EXCEPT !.stage = 0]

ProjectItem(r, p, user) ==
    r.view = "project" /\ r.detail /\ r.pk = p /\ r.user = user

Observe(sc, r, before, after) ==
    CASE sc.stage = 0 /\ DOMAIN after.projects # DOMAIN before.projects
                      /\ r.outcome = "Created" ->
            [sc EXCEPT !.stage = 1, !.alice = r.user,
                       !.project = CHOOSE p \in DOMAIN after.projects :
                                      p \notin DOMAIN before.projects]
      [] sc.stage = 1 /\ r.view = "project" /\ r.detail /\ r.pk = sc.project
                      /\ r.method = "GET" /\ r.user # sc.alice
                      /\ r.outcome = "Forbidden" ->
            [sc EXCEPT !.stage = 2, !.bob = r.user]
      [] sc.stage = 2 /\ before.contributors[<<sc.bob, sc.project>>] = 0
                      /\ after.contributors[<<sc.bob, sc.project>>] > 0 ->
            [sc EXCEPT !.stage = 3, !.adder = r.user]
      [] sc.stage = 3 /\ ProjectItem(r, sc.project, sc.bob)
                      /\ r.method = "GET" ->
            [sc EXCEPT !.stage = 4, !.read = r.outcome]
      [] sc.stage = 4 /\ ProjectItem(r, sc.project, sc.bob)
                      /\ r.method \in {"PUT", "PATCH", "DELETE"} ->
            [sc EXCEPT !.stage = 5]
      [] OTHER -> sc

\* the response of a request that arrived in the rows DB
Answer(req, out) ==
    /\ last' = Respond(req, out)
    /\ pre' = DB
    /\ scenario' = Observe(scenario, Respond(req, out), DB,
                           [projects |-> projects', issues |-> issues',
                            comments |-> comments',
                            contributors |-> contributors'])
    /\ UNCHANGED userVars

\* the response has left: the next request can be taken
Return ==
    /\ last # Idle
    /\ last' = Idle
    /\ pre' = NoRows
    /\ NoChange
    /\ UNCHANGED <<inflight, scenario, userVars>>

(* ------------------------------ projects ------------------------------ *)
\* ProjectViewSet on /projects/ and /projects/{pk}/
ProjectOutcome(d, req) ==
    Outcome(HasPermission(d, req.user, req.method, None, None),
            Handler(req.detail, req.method),
            req.pk \in DOMAIN d.projects,
            /\ req.pk \in DOMAIN d.projects
            /\ HasObjectPermission(d, req.user, req.method,
                                   GetProject(None, req.pk),
                                   d.projects[req.pk].author),
            TRUE)

\* Contributor.objects.get_or_create(user=user, project=project)
GetOrCreateContributor(rows, user, project) ==
    IF rows[<<user, project>>] > 0 THEN rows
    ELSE [rows EXCEPT ![<<user, project>>] = 1]

\* the rows that go with a project or an issue (on_delete=CASCADE)
IssuesOfProject(project) == {i \in DOMAIN issues : issues[i].project = project}

CommentsOfIssues(gone) == {c \in DOMAIN comments : comments[c].issue \in gone}

\* mutant: the author is taken from the body when it gives one
SavedAuthor_FromBody(user, identity) == IF identity # None THEN identity ELSE user

\* the author a create stores: `author` is a ReadOnlyField of the three
\* serializers, so the body's value never reaches validated_data, and
\* perform_create passes author=request.user
SavedAuthor(user, identity) == user

\* the author an update stores: the read-only field leaves the row's value
UpdatedAuthor(stored, identity) == stored

\* mutant: the project is saved without the author's membership
ProjectPerformCreate_NoMembership(user, identity) ==
    /\ projects' = (nextId.project :> [author |-> SavedAuthor(user, identity)])
                       @@ projects
    /\ nextId' = [nextId EXCEPT !.project = @ + 1]
    /\ UNCHANGED <<issues, comments, contributors>>

\* ProjectViewSet.perform_create
ProjectPerformCreate(user, identity) ==
    /\ projects' = (nextId.project :> [author |-> SavedAuthor(user, identity)])
                       @@ projects
    /\ contributors' = GetOrCreateContributor(contributors, user, nextId.project)
    /\ nextId' = [nextId EXCEPT !.project = @ + 1]
    /\ UNCHANGED <<issues, comments>>

\* ProjectViewSet destroy, with the cascade of models.py
ProjectPerformDestroy(pk) ==
    /\ projects' = Without(projects, {pk})
    /\ issues' = Without(issues, IssuesOfProject(pk))
    /\ comments' = Without(comments, CommentsOfIssues(IssuesOfProject(pk)))
    /\ contributors' = [k \in DOMAIN contributors |->
                          IF k[2] = pk THEN 0 ELSE contributors[k]]
    /\ UNCHANGED nextId

\* ProjectViewSet update / partial_update: name, type and description are
\* rewritten (not modelled); author is read-only
ProjectPerformUpdate(pk, identity) ==
    /\ projects' = [projects EXCEPT ![pk].author = UpdatedAuthor(@, identity)]
    /\ UNCHANGED <<issues, comments, contributors, nextId>>

\* /projects/
ProjectList(user, method, identity) ==
    /\ last = Idle
    /\ LET req == Request("project", FALSE, method, user, None, None, None, None,
                          None, identity)
           out == ProjectOutcome(DB, req)
       IN  /\ out = "Created" => nextId.project <= MaxProjects
           /\ IF out = "Created" THEN ProjectPerformCreate(user, identity)
              ELSE NoChange
           /\ Answer(req, out)
           /\ UNCHANGED inflight

\* mutant: the delete is carried out before the object permission is checked
ProjectDetail_DestroyUnchecked(user, method, pk, identity) ==
    /\ last = Idle
    /\ LET req == Request("project", TRUE, method, user, None, None, pk, None,
                          None, identity)
           out == ProjectOutcome(DB, req)
       IN  /\ IF method = "DELETE" /\ pk \in DOMAIN projects
              THEN ProjectPerformDestroy(pk)
              ELSE IF out = "OK" /\ Writes(method)
                   THEN ProjectPerformUpdate(pk, identity)
              ELSE NoChange
           /\ Answer(req, out)
           /\ UNCHANGED inflight

\* /projects/{pk}/
ProjectDetail(user, method, pk, identity) ==
    /\ last = Idle
    /\ LET req == Request("project", TRUE, method, user, None, None, pk, None,
                          None, identity)
           out == ProjectOutcome(DB, req)
       IN  /\ IF out = "NoContent" THEN ProjectPerformDestroy(pk)
              ELSE IF out = "OK" /\ Writes(method)
                   THEN ProjectPerformUpdate(pk, identity)
              ELSE NoChange
           /\ Answer(req, out)
           /\ UNCHANGED inflight

(* ------------------------------- issues ------------------------------- *)
\* IssueSerializer.__init__: the assignee field accepts the contributors of
\* the URL's project (User.objects.filter(contribution__project_id=project_pk))
AssigneeQueryset(d, project_pk) ==
    {u \in Users : Memberships(d, u, project_pk) > 0}

\* IssueSerializer.validate
IssueSerializerValidate(d, user, project_pk, assignee) ==
    /\ assignee # None => Memberships(d, assignee, project_pk) > 0
    /\ Memberships(d, user, project_pk) > 0

\* mutant: the assignee is not checked against the project's contributors
IssueValid_NoAssigneeCheck(d, user, project_pk, assignee) ==
    Memberships(d, user, project_pk) > 0

\* is_valid(): the field validation, then validate()
IssueValid(d, user, project_pk, assignee) ==
    /\ assignee # None => assignee \in AssigneeQueryset(d, project_pk)
    /\ IssueSerializerValidate(d, user, project_pk, assignee)

\* mutant: the assignee of an issue may write it
IssueOutcome_AssigneeWrites(d, req) ==
    Outcome(HasPermission(d, req.user, req.method, req.project_pk, None),
            Handler(req.detail, req.method),
            req.pk \in IssueQueryset(d, req.project_pk),
            /\ req.pk \in IssueQueryset(d, req.project_pk)
            /\ \/ HasObjectPermission(d, req.user, req.method,
                                      GetProject(req.project_pk,
                                                 d.issues[req.pk].project),
                                      d.issues[req.pk].author)
               \/ d.issues[req.pk].assignee = req.user,
            IssueValid(d, req.user, req.project_pk, req.assignee))

\* IssueViewSet on /projects/{project_pk}/issues/ and .../issues/{pk}/
IssueOutcome(d, req) ==
    Outcome(HasPermission(d, req.user, req.method, req.project_pk, None),
            Handler(req.detail, req.method),
            req.pk \in IssueQueryset(d, req.project_pk),
            /\ req.pk \in IssueQueryset(d, req.project_pk)
            /\ HasObjectPermission(d, req.user, req.method,
                                   GetProject(req.project_pk, d.issues[req.pk].project),
                                   d.issues[req.pk].author),
            IssueValid(d, req.user, req.project_pk, req.assignee))

\* the parent a create stores: `project` is not a field of IssueSerializer
\* and `issue` is read-only in CommentSerializer, so the body's value is
\* dropped, and perform_create passes the parent found from the URL
SavedParent(path, parent) == path

\* the project an issue update stores: the row's own (`project` is not a
\* field of IssueSerializer)
UpdatedParent(stored, parent) == stored

\* IssueViewSet.perform_create
IssuePerformCreate(user, project_pk, assignee, identity, parent) ==
    /\ issues' = (nextId.issue :> [project |-> SavedParent(project_pk, parent),
                                   author |-> SavedAuthor(user, identity),
                                   assignee |-> assignee]) @@ issues
    /\ nextId' = [nextId EXCEPT !.issue = @ + 1]
    /\ UNCHANGED <<projects, comments, contributors>>

\* IssueViewSet update / partial_update: author and project are not writable
IssuePerformUpdate(pk, assignee, identity, parent) ==
    /\ issues' = [issues EXCEPT
                    ![pk].project = UpdatedParent(@, parent),
                    ![pk].author = UpdatedAuthor(@, identity),
                    ![pk].assignee = IF assignee = None THEN @ ELSE assignee]
    /\ UNCHANGED <<projects, comments, contributors, nextId>>

\* IssueViewSet destroy, with the cascade to its comments
IssuePerformDestroy(pk) ==
    /\ issues' = Without(issues, {pk})
    /\ comments' = Without(comments, CommentsOfIssues({pk}))
    /\ UNCHANGED <<projects, contributors, nextId>>

\* /projects/{project_pk}/issues/
IssueList(user, method, project_pk, assignee, identity, parent) ==
    /\ last = Idle
    /\ LET req == WithParent(Request("issue", FALSE, method, user, project_pk,
                                     None, None, assignee, None, identity),
                             parent)
           out == IssueOutcome(DB, req)
       IN  /\ out = "Created" => nextId.issue <= MaxIssues
           /\ IF out = "Created"
              THEN IssuePerformCreate(user, project_pk, assignee, identity,
                                      parent)
              ELSE NoChange
           /\ Answer(req, out)
           /\ UNCHANGED inflight

\* /projects/{project_pk}/issues/{pk}/
IssueDetail(user, method, project_pk, pk, assignee, identity, parent) ==
    /\ last = Idle
    /\ LET req == WithParent(Request("issue", TRUE, method, user, project_pk,
                                     None, pk, assignee, None, identity),
                             parent)
           out == IssueOutcome(DB, req)
       IN  /\ IF out = "NoContent" THEN IssuePerformDestroy(pk)
              ELSE IF out = "OK" /\ Writes(method)
                   THEN IssuePerformUpdate(pk, assignee, identity, parent)
              ELSE NoChange
           /\ Answer(req, out)
           /\ UNCHANGED inflight

(* ------------------------------ comments ------------------------------ *)
\* mutant: validate() does not ask for the actor's membership
CommentSerializerValidate_NoActorCheck(d, user, issue_pk) ==
    issue_pk \in DOMAIN d.issues

\* CommentSerializer.validate: the issue of the URL, and the actor a
\* contributor of that issue's project
CommentSerializerValidate(d, user, issue_pk) ==
    /\ issue_pk \in DOMAIN d.issues
    /\ Memberships(d, user, d.issues[issue_pk].project) > 0

\* CommentViewSet on /projects/{project_pk}/issues/{issue_pk}/comments/[{pk}/]
CommentOutcome(d, req) ==
    Outcome(HasPermission(d, req.user, req.method, req.project_pk, req.issue_pk),
            Handler(req.detail, req.method),
            req.pk \in CommentQueryset(d, req.project_pk, req.issue_pk),
            /\ req.pk \in CommentQueryset(d, req.project_pk, req.issue_pk)
            /\ HasObjectPermission(d, req.user, req.method,
                                   GetProject(req.project_pk, None),
                                   d.comments[req.pk].author),
            CommentSerializerValidate(d, req.user, req.issue_pk))

\* CommentViewSet.perform_create
CommentPerformCreate(user, issue_pk, identity, parent) ==
    /\ comments' = (nextId.comment :> [issue |-> SavedParent(issue_pk, parent),
                                       author |-> SavedAuthor(user, identity)])
                       @@ comments
    /\ nextId' = [nextId EXCEPT !.comment = @ + 1]
    /\ UNCHANGED <<projects, issues, contributors>>

\* CommentViewSet update / partial_update: the description is rewritten (not
\* modelled), author is read-only, and validate() puts the issue of the URL
\* into the saved data
CommentPerformUpdate(pk, issue_pk, identity, parent) ==
    /\ comments' = [comments EXCEPT
                      ![pk].author = UpdatedAuthor(@, identity),
                      ![pk].issue = SavedParent(issue_pk, parent)]
    /\ UNCHANGED <<projects, issues, contributors, nextId>>

\* CommentViewSet destroy
CommentPerformDestroy(pk) ==
    /\ comments' = Without(comments, {pk})
    /\ UNCHANGED <<projects, issues, contributors, nextId>>

\* /projects/{project_pk}/issues/{issue_pk}/comments/
CommentList(user, method, project_pk, issue_pk, identity, parent) ==
    /\ last = Idle
    /\ LET req == WithParent(Request("comment", FALSE, method, user, project_pk,
                                     issue_pk, None, None, None, identity),
                             parent)
           out == CommentOutcome(DB, req)
       IN  /\ out = "Created" => nextId.comment <= MaxComments
           /\ IF out = "Created"
              THEN CommentPerformCreate(user, issue_pk, identity, parent)
              ELSE NoChange
           /\ Answer(req, out)
           /\ UNCHANGED inflight

\* /projects/{project_pk}/issues/{issue_pk}/comments/{pk}/
CommentDetail(user, method, project_pk, issue_pk, pk, identity, parent) ==
    /\ last = Idle
    /\ LET req == WithParent(Request("comment", TRUE, method, user, project_pk,
                                     issue_pk, pk, None, None, identity),
                             parent)
           out == CommentOutcome(DB, req)
       IN  /\ IF out = "NoContent" THEN CommentPerformDestroy(pk)
              ELSE IF out = "OK" /\ Writes(method)
                   THEN CommentPerformUpdate(pk, issue_pk, identity, parent)
              ELSE NoChange
           /\ Answer(req, out)
           /\ UNCHANGED inflight

(* ---------------------------- contributors ---------------------------- *)
\* A Contributor row is named by its pair: /contributors/{pk}/ is modelled
\* with pk the project of the actor's row (the queryset holds the actor's
\* rows only, so any other pk is not found).

\* the rows of the pair other than the row being written (instance = the
\* project of that row, None for an insert)
OtherRows(d, user, project, instance) ==
    Memberships(d, user, project) - (IF instance = project THEN 1 ELSE 0)

\* mutant: the table has no unique_together constraint
UniqueTogether_Off(d, user, project, instance) == TRUE

\* Contributor.Meta.unique_together, as the database enforces it
UniqueTogether(d, user, project, instance) ==
    OtherRows(d, user, project, instance) = 0

\* ContributorSerializer.is_valid(): the project field's lookup
\* (PrimaryKeyRelatedField over Project.objects.all()), then the
\* UniqueTogetherValidator
ContributorValid(d, user, project, instance) ==
    /\ project \in DOMAIN d.projects
    /\ OtherRows(d, user, project, instance) = 0

\* the INSERT of serializer.save(user=request.user): the foreign key and the
\* unique_together constraint
ContributorSaveOutcome(d, user, project) ==
    IF ProjectExists(d, project) /\ UniqueTogether(d, user, project, None)
        THEN "Created" ELSE "IntegrityError"

\* ContributorViewSet (permission_classes = [IsAuthenticated])
ContributorOutcome(d, req) ==
    LET handler == Handler(req.detail, req.method)
        found == Memberships(d, req.user, req.pk) > 0
    IN  IF handler = "metadata" THEN "OK"
        ELSE IF handler = "none" THEN "MethodNotAllowed"
        ELSE IF handler = "list" THEN "OK"
        ELSE IF handler = "create" THEN
            (IF ContributorValid(d, req.user, req.project, None)
                THEN ContributorSaveOutcome(d, req.user, req.project)
                ELSE "BadRequest")
        ELSE IF ~found THEN "NotFound"
        ELSE IF handler = "update" THEN
            (IF ContributorValid(d, req.user, req.project, req.pk)
                THEN "OK" ELSE "BadRequest")
        ELSE IF handler = "partial_update" THEN
            (IF req.project = None
                \/ ContributorValid(d, req.user, req.project, req.pk)
                THEN "OK" ELSE "BadRequest")
        ELSE ItemOutcome(handler, TRUE)

\* mutant: the membership is saved for the user the body names
SavedUser_FromBody(user, identity) == IF identity # None THEN identity ELSE user

\* the user a membership is saved with: `user` is a HiddenField whose value
\* is CurrentUserDefault() whatever the body gives, and perform_create passes
\* user=request.user
SavedUser(user, identity) == user

\* mutant: the add takes the user of the membership from the body when the
\* body names one
ContributorPerformCreate_NamedUser(user, project, identity) ==
    /\ contributors' =
          [contributors EXCEPT
              ![<<IF identity # None THEN identity ELSE user, project>>] = @ + 1]
    /\ UNCHANGED <<projects, issues, comments, nextId>>

\* ContributorViewSet.perform_create
ContributorPerformCreate(user, project, identity) ==
    /\ contributors' =
          [contributors EXCEPT ![<<SavedUser(user, identity), project>>] = @ + 1]
    /\ UNCHANGED <<projects, issues, comments, nextId>>

\* update / partial_update of a membership: project is the writable field
\* (user is a HiddenField set to the actor)
ContributorPerformUpdate(user, pk, project, identity) ==
    /\ contributors' =
          LET to == IF project = None THEN pk ELSE project
              as == SavedUser(user, identity)
          IN  IF to = pk /\ as = user THEN contributors
              ELSE [k \in DOMAIN contributors |->
                      contributors[k] - (IF k = <<user, pk>> THEN 1 ELSE 0)
                                      + (IF k = <<as, to>> THEN 1 ELSE 0)]
    /\ UNCHANGED <<projects, issues, comments, nextId>>

\* destroy of a membership
ContributorPerformDestroy(user, pk) ==
    /\ contributors' = [contributors EXCEPT ![<<user, pk>>] = @ - 1]
    /\ UNCHANGED <<projects, issues, comments, nextId>>

\* /contributors/ , the request run in one piece
ContributorList(user, method, project, identity) ==
    /\ last = Idle
    /\ LET req == Request("contributor", FALSE, method, user, None, None, None,
                          None, project, identity)
           out == ContributorOutcome(DB, req)
       IN  /\ IF out = "Created"
              THEN ContributorPerformCreate(user, project, identity)
              ELSE NoChange
           /\ Answer(req, out)
           /\ UNCHANGED inflight

\* /contributors/{pk}/
ContributorDetail(user, method, pk, project, identity) ==
    /\ last = Idle
    /\ LET req == Request("contributor", TRUE, method, user, None, None, pk,
                          None, project, identity)
           out == ContributorOutcome(DB, req)
       IN  /\ IF out = "NoContent" THEN ContributorPerformDestroy(user, pk)
              ELSE IF out = "OK" /\ Writes(method)
                   THEN ContributorPerformUpdate(user, pk, project, identity)
              ELSE NoChange
           /\ Answer(req, out)
           /\ UNCHANGED inflight

\* POST /contributors/ in two steps, for requests that overlap: is_valid()
\* passes and the request waits for its save ...
RECURSIVE SumOver(_, _)
SumOver(f, S) ==
    IF S = {} THEN 0
    ELSE LET x == CHOOSE y \in S : TRUE IN f[x] + SumOver(f, S \ {x})

InFlightTotal == SumOver(inflight, DOMAIN inflight)

ContributorIsValid(user, project) ==
    /\ last = Idle
    /\ InFlightTotal < MaxInFlight
    /\ ContributorValid(DB, user, project, None)
    /\ inflight' = [inflight EXCEPT ![<<user, project>>] = @ + 1]
    /\ NoChange
    /\ UNCHANGED <<last, pre, scenario, userVars>>

\* ... and the save of a validated request, against the rows as they are now
ContributorSave(user, project) ==
    /\ last = Idle
    /\ LET req == Request("contributor", FALSE, "POST", user, None, None, None,
                          None, project, None)
           out == ContributorSaveOutcome(DB, user, project)
       IN  /\ inflight[<<user, project>>] > 0
           /\ inflight' = [inflight EXCEPT ![<<user, project>>] = @ - 1]
           /\ IF out = "Created" THEN ContributorPerformCreate(user, project, None)
              ELSE NoChange
           /\ Answer(req, out)

(* ------------------------------- users -------------------------------- *)
\* softdesk.users: UserViewSet on /users/ and /users/{pk}/

AccountIds == 1..MaxAccounts

\* a username: what it starts with and the rest of it
Name(prefix, rest) == [prefix |-> prefix, rest |-> rest]

NoName == Name("", "")

\* the usernames a body gives
UserNames == {Name("", "camille"), Name("", "alex")}

\* values of uuid.uuid4().hex
Hexes == {"0f", "1e"}

\* the least age validate_age accepts
MinAge == 15

\* the least length of a password (min_length of the password field)
MinPasswordLength == 8

\* the bodies of POST, PUT and PATCH; the password is given by its length
UserBodies ==
    [username : UserNames, email : {"camille@softdesk"}, password : {3, 8},
     age : {14, 28}, can_be_contacted : BOOLEAN, can_data_be_shared : {TRUE}]

NoBody == [username |-> NoName, email |-> "", password |-> 0, age |-> 0,
           can_be_contacted |-> FALSE, can_data_be_shared |-> FALSE]

UserBodiesOf(method) == IF Writes(method) THEN UserBodies ELSE {NoBody}

\* a request is sent without credentials or by a user who has an account
Authenticates(rows, actor) == actor = None \/ actor \in DOMAIN rows

UserRequest(detail, method, actor, pk, body) ==
    [detail |-> detail, method |-> method, actor |-> actor, pk |-> pk,
     body |-> body]

UserRespond(req, outcome) ==
    [detail |-> req.detail, method |-> req.method, actor |-> req.actor,
     pk |-> req.pk, body |-> req.body, outcome |-> outcome]

IdleUser == UserRespond(UserRequest(FALSE, "GET", None, None, NoBody), "none")

\* UserViewSet.get_permissions: AllowAny for create, IsAuthenticated and
\* IsSelf (whose has_permission is the default) for every other action
UserHasPermission(handler, actor) == handler = "create" \/ actor # None

\* UserViewSet.get_queryset: User.objects.filter(pk=self.request.user.pk)
UserQueryset(rows, actor) == {id \in DOMAIN rows : id = actor}

\* IsSelf.has_object_permission
IsSelf(obj, actor) == obj = actor

\* UserSerializer.validate_age
ValidateAge(value) == value >= MinAge

\* UserSerializer.is_valid(): the password's length, the unique username
\* (AbstractUser.username, the row being updated left out), validate_age
UserValid(rows, body, instance) ==
    /\ body.password >= MinPasswordLength
    /\ \A id \in DOMAIN rows \ {instance} : rows[id].username # body.username
    /\ ValidateAge(body.age)

\* the row UserSerializer.create and UserSerializer.update store:
\* set_password() hashes the password, the other fields are copied
SavedUserRow(body) ==
    [username |-> body.username, email |-> body.email, usable_password |-> TRUE,
     can_be_contacted |-> body.can_be_contacted,
     can_data_be_shared |-> body.can_data_be_shared, age |-> body.age]

\* mutant: the row is removed
AnonymizedRows_RowRemoved(rows, pk, hex) == Without(rows, {pk})

\* UserViewSet.perform_destroy
AnonymizedRows(rows, pk, hex) ==
    [rows EXCEPT ![pk] = [username |-> Name("deleted_", hex), email |-> "",
                          usable_password |-> FALSE,
                          can_be_contacted |-> FALSE,
                          can_data_be_shared |-> FALSE, age |-> 99]]

\* the answer of UserViewSet: permissions, handler, get_object, validation
UserOutcome(rows, req) ==
    LET handler == Handler(req.detail, req.method)
    IN  IF ~UserHasPermission(handler, req.actor) THEN "Unauthorized"
        ELSE IF handler = "metadata" THEN "OK"
        ELSE IF handler = "none" THEN "MethodNotAllowed"
        ELSE IF handler = "list" THEN "OK"
        ELSE IF handler = "create"
            THEN (IF UserValid(rows, req.body, None) THEN "Created"
                  ELSE "BadRequest")
        ELSE IF req.pk \notin UserQueryset(rows, req.actor) THEN "NotFound"
        ELSE IF ~IsSelf(req.pk, req.actor) THEN "Forbidden"
        ELSE ItemOutcome(handler, UserValid(rows, req.body, req.pk))

UserAnswer(req, out) ==
    /\ lastUser' = UserRespond(req, out)
    /\ preAccounts' = accounts
    /\ NoChange
    /\ UNCHANGED <<inflight, last, pre, scenario>>

\* /users/ ; the actor is None for a request without credentials, or a user
\* whose token was issued before the request
UserList(actor, method, body) ==
    /\ lastUser = IdleUser
    /\ Authenticates(accounts, actor)
    /\ LET req == UserRequest(FALSE, method, actor, None, body)
           out == UserOutcome(accounts, req)
           id == Cardinality(DOMAIN accounts) + 1
       IN  /\ out = "Created" => id <= MaxAccounts
           /\ accounts' = IF out = "Created"
                            THEN (id :> SavedUserRow(body)) @@ accounts
                            ELSE accounts
           /\ UserAnswer(req, out)

\* /users/{pk}/ ; hex is the value uuid4 gives to a delete, one that no other
\* username ends with
UserDetail(actor, method, pk, body, hex) ==
    /\ lastUser = IdleUser
    /\ Authenticates(accounts, actor)
    /\ \A id \in DOMAIN accounts \ {pk} :
          accounts[id].username # Name("deleted_", hex)
    /\ LET req == UserRequest(TRUE, method, actor, pk, body)
           out == UserOutcome(accounts, req)
       IN  /\ accounts' =
                 IF out = "NoContent" THEN AnonymizedRows(accounts, pk, hex)
                 ELSE IF out = "OK" /\ Writes(method)
                      THEN [accounts EXCEPT ![pk] = SavedUserRow(body)]
                 ELSE accounts
           /\ UserAnswer(req, out)

UserReturn ==
    /\ lastUser # IdleUser
    /\ lastUser' = IdleUser
    /\ preAccounts' = Empty
    /\ UNCHANGED accounts
    /\ NoChange
    /\ UNCHANGED <<inflight, last, pre, scenario>>

(* --------------------------- specification ---------------------------- *)
\* the empty database
InitRows ==
    /\ projects = Empty
    /\ issues = Empty
    /\ comments = Empty
    /\ contributors = [k \in Users \X ProjectIds |-> 0]
    /\ nextId = [project |-> 1, issue |-> 1, comment |-> 1]
    /\ inflight = [k \in Users \X ProjectIds |-> 0]
    /\ last = Idle
    /\ pre = NoRows
    /\ accounts = Empty
    /\ lastUser = IdleUser
    /\ preAccounts = Empty

Init == InitRows /\ scenario = Off

Bodies(method, values) == IF Writes(method) THEN values ELSE {None}

\* the identities a body can give for author or user
Identities(method) == Bodies(method, Users \cup {None})

\* the keys a body can carry that the serializers do not take: an identity
\* for author, or a parent (one of ids), or neither
Extras(method, ids) ==
    {[identity |-> u, parent |-> None] : u \in Identities(method)}
        \cup {[identity |-> None, parent |-> p] : p \in Bodies(method, ids)}

\* a request is taken when none is being answered
ProjectRequests ==
    /\ last = Idle
    /\ \/ \E user \in Users, method \in Methods :
            \E identity \in Identities(method) :
               ProjectList(user, method, identity)
       \/ \E user \in Users, method \in Methods, pk \in ProjectIds :
            \E identity \in Identities(method) :
               ProjectDetail(user, method, pk, identity)

IssueRequests ==
    /\ last = Idle
    /\ \/ \E user \in Users, method \in Methods, project_pk \in ProjectIds :
            \E assignee \in Bodies(method, Users \cup {None}),
               extra \in Extras(method, ProjectIds) :
               IssueList(user, method, project_pk, assignee, extra.identity,
                         extra.parent)
       \/ \E user \in Users, method \in Methods, project_pk \in ProjectIds,
             pk \in IssueIds :
            \E assignee \in Bodies(method, Users \cup {None}),
               extra \in Extras(method, ProjectIds) :
               IssueDetail(user, method, project_pk, pk, assignee,
                           extra.identity, extra.parent)

CommentRequests ==
    /\ last = Idle
    /\ \/ \E user \in Users, method \in Methods, project_pk \in ProjectIds,
             issue_pk \in IssueIds :
            \E extra \in Extras(method, IssueIds) :
               CommentList(user, method, project_pk, issue_pk, extra.identity,
                           extra.parent)
       \/ \E user \in Users, method \in Methods, project_pk \in ProjectIds,
             issue_pk \in IssueIds, pk \in CommentIds :
            \E extra \in Extras(method, IssueIds) :
               CommentDetail(user, method, project_pk, issue_pk, pk,
                             extra.identity, extra.parent)

ContributorRequests ==
    /\ last = Idle
    /\ \/ \E user \in Users, method \in Methods :
            \E project \in Bodies(method, ProjectIds \cup {None}),
               identity \in Identities(method) :
               ContributorList(user, method, project, identity)
       \/ \E user \in Users, method \in Methods, pk \in ProjectIds :
            \E project \in Bodies(method, ProjectIds \cup {None}),
               identity \in Identities(method) :
               ContributorDetail(user, method, pk, project, identity)

\* POST /contributors/ taken in its two steps
OverlappingCreates ==
    /\ last = Idle
    /\ \/ \E user \in Users, project \in ProjectIds :
            ContributorIsValid(user, project)
       \/ \E user \in Users, project \in ProjectIds :
            ContributorSave(user, project)

\* requests answered one at a time
Next ==
    \/ ProjectRequests
    \/ IssueRequests
    \/ CommentRequests
    \/ ContributorRequests
    \/ Return

Spec == Init /\ [][Next]_vars

\* project and membership requests with overlapping contributor creations
NextInterleaved ==
    \/ ProjectRequests
    \/ ContributorRequests
    \/ OverlappingCreates
    \/ Return

SpecInterleaved == Init /\ [][NextInterleaved]_vars

\* project and membership requests, with the sequence of section 8 followed
InitScenario == InitRows /\ scenario = Start

NextScenario ==
    \/ ProjectRequests
    \/ ContributorRequests
    \/ Return

SpecScenario == InitScenario /\ [][NextScenario]_vars

\* the requests on the user accounts
UserRequests ==
    /\ lastUser = IdleUser
    /\ \/ \E actor \in AccountIds \cup {None}, method \in Methods :
            \E body \in UserBodiesOf(method) : UserList(actor, method, body)
       \/ \E actor \in AccountIds \cup {None}, method \in Methods,
             pk \in AccountIds :
            \E body \in UserBodiesOf(method), hex \in Hexes :
               UserDetail(actor, method, pk, body, hex)

NextUsers ==
    \/ UserRequests
    \/ UserReturn

SpecUsers == Init /\ [][NextUsers]_vars

(* ------------------------- the claims' vocabulary --------------------- *)
\* read off the stored rows d and the answered request r, not off the
\* operators of the permission class

Member(d, user, project) ==
    /\ <<user, project>> \in DOMAIN d.contributors
    /\ d.contributors[<<user, project>>] > 0

MemberOfNone(d, user) == \A p \in ProjectIds : ~Member(d, user, p)

\* the methods a route serves
Served(r) ==
    IF r.detail THEN r.method \in {"GET", "HEAD", "PUT", "PATCH", "DELETE"}
    ELSE r.method \in {"GET", "HEAD", "POST"}

Reads(r) == r.method \in {"GET", "HEAD"}

ItemWrites(r) == r.method \in {"PUT", "PATCH", "DELETE"}

Nested(r) == r.view \in {"issue", "comment"}

ChainProject(r) == IF r.view = "project" THEN r.pk ELSE r.project_pk

HasIssueId(r) == (r.view = "issue" /\ r.detail) \/ r.view = "comment"

ChainIssue(r) == IF r.view = "issue" THEN r.pk ELSE r.issue_pk

HasCommentId(r) == r.view = "comment" /\ r.detail

ProjectResolved(d, r) ==
    (r.view = "project" /\ ~r.detail) \/ ChainProject(r) \in DOMAIN d.projects

IssueResolved(d, r) ==
    /\ ChainIssue(r) \in DOMAIN d.issues
    /\ d.issues[ChainIssue(r)].project = r.project_pk

CommentResolved(d, r) ==
    /\ r.pk \in DOMAIN d.comments
    /\ d.comments[r.pk].issue = r.issue_pk

ChainResolved(d, r) ==
    /\ ProjectResolved(d, r)
    /\ HasIssueId(r) => IssueResolved(d, r)
    /\ HasCommentId(r) => CommentResolved(d, r)

ItemAuthor(d, r) ==
    IF r.view = "issue" THEN d.issues[r.pk].author ELSE d.comments[r.pk].author

Succeeded(r) == r.outcome \in {"OK", "Created", "NoContent"}

(* ------------------------------- C1 ----------------------------------- *)
\* C1: on a project, issue or comment route, for every method the route
\* serves, a request whose path does not resolve (some identifier, the
\* deepest one included, names no stored entity under its claimed parent)
\* and whose actor is not a contributor of the path's project is answered
\* NotFound, never Forbidden.
C1_NotFoundOverForbidden ==
    (/\ last.view \in {"project", "issue", "comment"}
     /\ Served(last)
     /\ ~ChainResolved(pre, last)
     /\ ~Member(pre, last.user, ChainProject(last)))
    => last.outcome = "NotFound"

(* ------------------------------- C2 ----------------------------------- *)
\* C2 as stated: a write (update or delete) on an existing issue or comment
\* goes through only if the actor is both a contributor of the project and
\* the author of the item, and an actor who is both is not refused.
C2_WriteNeedsMemberAndAuthor ==
    (Nested(last) /\ last.detail /\ ItemWrites(last) /\ ChainResolved(pre, last))
    => LET both == /\ Member(pre, last.user, last.project_pk)
                   /\ ItemAuthor(pre, last) = last.user
       IN  /\ both => last.outcome # "Forbidden"
           /\ ~both => ~Succeeded(last)

\* C2 amended: a write on an existing issue or comment is Forbidden exactly
\* when the actor is not the item's author; a delete by the author removes
\* the item whether or not the author is still a contributor; an update by
\* an author who is no longer a contributor is a validation failure that
\* changes nothing, so an update is applied only for an author who is a
\* contributor.
C2_WriteNeedsAuthor ==
    (Nested(last) /\ last.detail /\ ItemWrites(last) /\ ChainResolved(pre, last))
    => LET author == ItemAuthor(pre, last) = last.user
           member == Member(pre, last.user, last.project_pk)
       IN  /\ last.outcome = "Forbidden" <=> ~author
           /\ (last.method = "DELETE" /\ author) =>
                 /\ last.outcome = "NoContent"
                 /\ ~ChainResolved(DB, last)
           /\ (last.method # "DELETE" /\ author /\ ~member) =>
                 /\ last.outcome = "BadRequest"
                 /\ DB = pre
           /\ (last.method # "DELETE" /\ last.outcome = "OK") => author /\ member

\* an author who has left the project deletes their item
C2_AuthorOutsideDeletes ==
    /\ Nested(last) /\ last.detail /\ last.method = "DELETE"
    /\ ChainResolved(pre, last)
    /\ ItemAuthor(pre, last) = last.user
    /\ ~Member(pre, last.user, last.project_pk)
    /\ last.outcome = "NoContent"

(* ------------------------------- C3 ----------------------------------- *)
\* C3: reading an existing project (GET or HEAD on its item route) is
\* answered OK for a contributor of the project and Forbidden for anyone
\* else, the project's author included.
C3_ProjectReadIffContributor ==
    (/\ last.view = "project" /\ last.detail /\ Reads(last)
     /\ last.pk \in DOMAIN pre.projects)
    => IF Member(pre, last.user, last.pk)
       THEN last.outcome = "OK" ELSE last.outcome = "Forbidden"

\* the author of a project, no longer a member, is refused its detail
C3_AuthorOutsideRefused ==
    /\ last.view = "project" /\ last.detail /\ last.method = "GET"
    /\ last.pk \in DOMAIN pre.projects
    /\ pre.projects[last.pk].author = last.user
    /\ ~Member(pre, last.user, last.pk)
    /\ last.outcome = "Forbidden"

(* ------------------------------- C4 ----------------------------------- *)
\* C4: an update or delete of an existing project goes through exactly when
\* the actor is its stored author; anyone else is Forbidden and no row
\* changes; a delete by the author removes the project.
C4_ProjectWriteIffAuthor ==
    (/\ last.view = "project" /\ last.detail /\ ItemWrites(last)
     /\ last.pk \in DOMAIN pre.projects)
    => IF pre.projects[last.pk].author = last.user
       THEN IF last.method = "DELETE"
            THEN last.outcome = "NoContent" /\ last.pk \notin DOMAIN projects
            ELSE last.outcome = "OK" /\ last.pk \in DOMAIN projects
       ELSE last.outcome = "Forbidden" /\ DB = pre

\* a contributor who is not the author is refused the delete
C4_ContributorRefused ==
    /\ last.view = "project" /\ last.detail /\ last.method = "DELETE"
    /\ last.pk \in DOMAIN pre.projects
    /\ pre.projects[last.pk].author # last.user
    /\ Member(pre, last.user, last.pk)
    /\ last.outcome = "Forbidden"
    /\ last.pk \in DOMAIN projects

(* ------------------------------- C5 ----------------------------------- *)
\* C5: on /projects/ a list is answered OK and a create Created for every
\* actor, whatever their memberships, while a read of a project item by an
\* actor who is not a contributor of it is Forbidden.
C5_RootOpenToAll ==
    /\ (last.view = "project" /\ ~last.detail /\ Served(last))
       => last.outcome = (IF last.method = "POST" THEN "Created" ELSE "OK")
    /\ (/\ last.view = "project" /\ last.detail /\ Reads(last)
        /\ last.pk \in DOMAIN pre.projects
        /\ ~Member(pre, last.user, last.pk))
       => last.outcome = "Forbidden"

\* an actor who belongs to no project creates one while another exists
C5_OutsiderCreates ==
    /\ last.view = "project" /\ ~last.detail /\ last.method = "POST"
    /\ DOMAIN pre.projects # {}
    /\ MemberOfNone(pre, last.user)
    /\ last.outcome = "Created"
    /\ \E p \in DOMAIN projects \ DOMAIN pre.projects :
          projects[p].author = last.user

(* ------------------------------- C6 ----------------------------------- *)
\* exactly one row was added to table now, under the parent named by field
OneChild(now, before, field, parent) ==
    \E new \in DOMAIN now \ DOMAIN before :
        /\ DOMAIN now = DOMAIN before \cup {new}
        /\ now[new][field] = parent
        /\ \A k \in DOMAIN before : now[k] = before[k]

\* C6: on a nested collection whose parents exist, a list or create is
\* Forbidden exactly when the actor is not a contributor of the project,
\* and then no row changes; a contributor's list is OK; a contributor's
\* create is Created unless its input is invalid, and a created request has
\* added exactly one child under the parent of the path and nothing else.
C6_NestedCollectionIffContributor ==
    (Nested(last) /\ ~last.detail /\ Served(last) /\ ChainResolved(pre, last))
    => LET member == Member(pre, last.user, last.project_pk)
       IN  /\ last.outcome = "Forbidden" <=> ~member
           /\ last.outcome = "Forbidden" => DB = pre
           /\ (member /\ Reads(last)) => last.outcome = "OK" /\ DB = pre
           /\ (member /\ last.method = "POST") =>
                 /\ last.outcome \in {"Created", "BadRequest"}
                 /\ last.assignee = None => last.outcome = "Created"
           /\ last.outcome = "Created" =>
                 /\ projects = pre.projects
                 /\ contributors = pre.contributors
                 /\ IF last.view = "issue"
                    THEN /\ OneChild(issues, pre.issues, "project", last.project_pk)
                         /\ comments = pre.comments
                    ELSE /\ OneChild(comments, pre.comments, "issue", last.issue_pk)
                         /\ issues = pre.issues

\* a contributor adds a comment to an issue of the project
C6_ContributorCreatesComment ==
    /\ last.view = "comment" /\ ~last.detail /\ last.method = "POST"
    /\ Member(pre, last.user, last.project_pk)
    /\ last.outcome = "Created"
    /\ \E c \in DOMAIN comments \ DOMAIN pre.comments :
          comments[c].issue = last.issue_pk

(* ------------------------------- C7 ----------------------------------- *)
\* C7: reading an existing issue or comment through its own parents is OK
\* for a contributor of the project and Forbidden for anyone else, the
\* item's author and the issue's assignee included.
C7_NestedReadIffContributor ==
    (Nested(last) /\ last.detail /\ Reads(last) /\ ChainResolved(pre, last))
    => IF Member(pre, last.user, last.project_pk)
       THEN last.outcome = "OK" ELSE last.outcome = "Forbidden"

\* the assignee of an issue, no longer a contributor, is refused the issue
C7_AssigneeOutsideRefused ==
    /\ last.view = "issue" /\ last.detail /\ last.method = "GET"
    /\ ChainResolved(pre, last)
    /\ pre.issues[last.pk].assignee = last.user
    /\ ~Member(pre, last.user, last.project_pk)
    /\ last.outcome = "Forbidden"

(* ------------------------------- C8 ----------------------------------- *)
\* the path's issue identifier names an issue stored under another project
\* than the (existing) project of the path
ForeignIssue(d, r) ==
    /\ Nested(r) /\ HasIssueId(r)
    /\ r.project_pk \in DOMAIN d.projects
    /\ ChainIssue(r) \in DOMAIN d.issues
    /\ d.issues[ChainIssue(r)].project # r.project_pk

\* C8: a path (project, issue[, comment]) whose issue exists under another
\* project is answered NotFound for every actor and every method the route
\* serves, whether or not the comment identifier names a stored comment.
C8_ForeignIssueNotFound ==
    (ForeignIssue(pre, last) /\ Served(last)) => last.outcome = "NotFound"

(* ------------------------------- C9 ----------------------------------- *)
\* a parent of the nested route is absent: the project, or on a comment
\* route the issue under that project
ParentAbsent(d, r) ==
    /\ Nested(r)
    /\ \/ r.project_pk \notin DOMAIN d.projects
       \/ /\ r.view = "comment"
          /\ ~(/\ r.issue_pk \in DOMAIN d.issues
               /\ d.issues[r.issue_pk].project = r.project_pk)

\* C9: on a nested route with an absent parent the answer is NotFound for
\* every actor and every method.
C9_AbsentParentNotFound ==
    ParentAbsent(pre, last) => last.outcome = "NotFound"

\* an actor who belongs to no project asks for the comments of an issue
\* that an existing project does not hold
C9_OutsiderGetsNotFound ==
    /\ last.view = "comment" /\ last.method = "GET"
    /\ last.project_pk \in DOMAIN pre.projects
    /\ ParentAbsent(pre, last)
    /\ MemberOfNone(pre, last.user)
    /\ last.outcome = "NotFound"

(* ------------------------------- C10 ---------------------------------- *)
AddsContributor(r) == r.view = "contributor" /\ ~r.detail /\ r.method = "POST"

\* C10: every (user, project) pair has at most one Contributor row; after a
\* created add the actor is a contributor of the project; an add for a pair
\* that already has its row is rejected and leaves the rows as they were.
C10_MembershipUnique ==
    /\ \A k \in DOMAIN contributors : contributors[k] <= 1
    /\ (AddsContributor(last) /\ last.outcome = "Created")
       => Member(DB, last.user, last.project)
    /\ (AddsContributor(last) /\ Member(pre, last.user, last.project))
       => /\ last.outcome \in {"BadRequest", "IntegrityError"}
          /\ DB = pre
          /\ contributors[<<last.user, last.project>>] = 1

\* of two overlapping adds for one pair, both validated, the second to be
\* saved is rejected by the database
C10_OverlappingAddRejected ==
    /\ AddsContributor(last)
    /\ last.outcome = "IntegrityError"
    /\ last.project \in DOMAIN projects
    /\ pre.contributors[<<last.user, last.project>>] = 1
    /\ contributors[<<last.user, last.project>>] = 1

(* ------------------------------- C11 ---------------------------------- *)
CreatesProject(r) == r.view = "project" /\ ~r.detail /\ r.method = "POST"

\* GET of the detail of project p by user, as answered in the rows d
ReadsAtOnce(d, user, p) ==
    ProjectOutcome(d, Request("project", TRUE, "GET", user, None, None, p,
                              None, None, None))

\* C11: a created project is one new row whose author is the actor; that
\* project has exactly one membership, the actor's; nothing else changed;
\* and a read of the new project by the actor, made at once, is answered OK.
C11_CreatorIsAuthorAndContributor ==
    (CreatesProject(last) /\ last.outcome = "Created")
    => \E p \in DOMAIN projects \ DOMAIN pre.projects :
          /\ DOMAIN projects = DOMAIN pre.projects \cup {p}
          /\ projects[p].author = last.user
          /\ \A u \in Users :
                contributors[<<u, p>>] = (IF u = last.user THEN 1 ELSE 0)
          /\ \A k \in DOMAIN contributors :
                k[2] # p => contributors[k] = pre.contributors[k]
          /\ \A q \in DOMAIN pre.projects : projects[q] = pre.projects[q]
          /\ issues = pre.issues /\ comments = pre.comments
          /\ ReadsAtOnce(DB, last.user, p) = "OK"

\* a second project is created by a user who is the author of the first
\* and left it: the new membership is the only one the creator has
C11_CreatorGetsOneMembership ==
    /\ CreatesProject(last) /\ last.outcome = "Created"
    /\ \E q \in DOMAIN pre.projects : pre.projects[q].author = last.user
    /\ MemberOfNone(pre, last.user)
    /\ \E p \in DOMAIN projects \ DOMAIN pre.projects :
          /\ projects[p].author = last.user
          /\ {k \in DOMAIN contributors : contributors[k] > 0} = {<<last.user, p>>}

(* ------------------------------- C12 ---------------------------------- *)
\* the decisions of the sequence, each against the rows stored when its
\* request arrived: the created project has one membership, its author's;
\* the refused user (bob) reads the project exactly while a contributor of
\* it, before and after the add; bob's writes of the project are Forbidden
\* and change nothing, contributor or not
SequenceDecisions ==
    LET p == scenario.project
        bob == scenario.bob
    IN  /\ (scenario.stage = 1 /\ CreatesProject(last)
                /\ p \in DOMAIN projects \ DOMAIN pre.projects) =>
              /\ last.user = scenario.alice
              /\ projects[p].author = scenario.alice
              /\ \A u \in Users :
                    contributors[<<u, p>>] = (IF u = scenario.alice THEN 1 ELSE 0)
        /\ (scenario.stage >= 2 /\ ProjectItem(last, p, bob) /\ Served(last)) =>
              IF p \notin DOMAIN pre.projects THEN last.outcome = "NotFound"
              ELSE /\ pre.projects[p].author = scenario.alice
                   /\ bob # scenario.alice
                   /\ Reads(last) =>
                         last.outcome =
                            (IF Member(pre, bob, p) THEN "OK" ELSE "Forbidden")
                   /\ ItemWrites(last) => last.outcome = "Forbidden" /\ DB = pre

\* C12 as stated: the sequence with its decisions, the add of bob to the
\* project being a request made by alice, the project's author.
C12_AuthorAddsContributor ==
    /\ SequenceDecisions
    /\ scenario.stage >= 3 => scenario.adder = scenario.alice

\* C12 amended: the sequence with its decisions, the add of bob to the
\* project being a request made by bob: an add enrols the user who sends it.
C12_SequenceFollowsMembership ==
    /\ SequenceDecisions
    /\ scenario.stage >= 3 => scenario.adder = scenario.bob

\* the whole sequence has run: bob was refused, joined, read the project
\* and is now refused its update while a contributor of it
C12_SequenceCompleted ==
    /\ scenario.stage = 5
    /\ scenario.read = "OK"
    /\ scenario.adder = scenario.bob
    /\ ProjectItem(last, scenario.project, scenario.bob)
    /\ last.method = "PUT"
    /\ last.outcome = "Forbidden"
    /\ Member(pre, scenario.bob, scenario.project)
    /\ projects[scenario.project].author = scenario.alice

(* ------------------------------- C13 ---------------------------------- *)
\* an issue create, or an issue update, whose body supplies an assignee
AssignsIssue(r) ==
    /\ r.view = "issue"
    /\ r.assignee # None
    /\ IF r.detail THEN r.method \in {"PUT", "PATCH"} ELSE r.method = "POST"

\* the actor passes the permission checks of the request
Authorized(d, r) ==
    IF r.detail THEN d.issues[r.pk].author = r.user
    ELSE Member(d, r.user, r.project_pk)

\* C13: an issue create or update that supplies an assignee who is not a
\* contributor of the path's project when the request arrives stores
\* nothing (no issue is created, the stored assignee stays) and, for an
\* actor who passes the permission checks, is answered BadRequest, neither
\* Forbidden nor NotFound; a request that does store an assignee stores the
\* one supplied, a contributor of the project at that time.
C13_AssigneeMustBeContributor ==
    (AssignsIssue(last) /\ ChainResolved(pre, last))
    => /\ ~Member(pre, last.assignee, last.project_pk) =>
             /\ DB = pre
             /\ ~Succeeded(last)
             /\ Authorized(pre, last) => last.outcome = "BadRequest"
       /\ Succeeded(last) =>
             /\ Member(pre, last.assignee, last.project_pk)
             /\ \E i \in DOMAIN issues :
                   /\ i = last.pk \/ i \notin DOMAIN pre.issues
                   /\ issues[i].assignee = last.assignee
                   /\ issues[i].project = last.project_pk

\* the author of an issue sends an update naming again the stored assignee,
\* who has left the project since: the update is a BadRequest
C13_FormerContributorRejected ==
    /\ AssignsIssue(last) /\ last.detail /\ ChainResolved(pre, last)
    /\ pre.issues[last.pk].author = last.user
    /\ Member(pre, last.user, last.project_pk)
    /\ pre.issues[last.pk].assignee = last.assignee
    /\ ~Member(pre, last.assignee, last.project_pk)
    /\ last.outcome = "BadRequest"
    /\ issues = pre.issues

(* ------------------------------- C14 ---------------------------------- *)
\* C14: an update or delete of an existing issue by its assignee, when the
\* assignee is not its author, is Forbidden and changes nothing, whether or
\* not the assignee is a contributor of the project.
C14_AssigneeCannotWrite ==
    (/\ last.view = "issue" /\ last.detail /\ ItemWrites(last)
     /\ ChainResolved(pre, last)
     /\ pre.issues[last.pk].assignee = last.user
     /\ pre.issues[last.pk].author # last.user)
    => last.outcome = "Forbidden" /\ DB = pre

\* the assignee, a contributor of the project, is refused the delete of
\* the issue
C14_ContributorAssigneeRefused ==
    /\ last.view = "issue" /\ last.detail /\ last.method = "DELETE"
    /\ ChainResolved(pre, last)
    /\ pre.issues[last.pk].assignee = last.user
    /\ pre.issues[last.pk].author # last.user
    /\ Member(pre, last.user, last.project_pk)
    /\ last.outcome = "Forbidden"
    /\ last.pk \in DOMAIN issues

(* ------------------------------- C15 ---------------------------------- *)
\* the rows of a table after the request r: a row that was there keeps its
\* author, a new row was created by r on the table's route and has the
\* actor of r as its author
AuthorsFromActor(now, before, r, view) ==
    \A k \in DOMAIN now :
        IF k \in DOMAIN before THEN now[k].author = before[k].author
        ELSE /\ r.view = view /\ ~r.detail /\ r.method = "POST"
             /\ r.outcome = "Created"
             /\ now[k].author = r.user

\* C15: whatever a request's body gives for author, every project, issue
\* and comment created by the request has the request's actor as author,
\* and every row the request leaves in place has the author it had; so in
\* every reachable state each author is the identity that created the row.
C15_AuthorIsCreator ==
    last # Idle =>
        /\ AuthorsFromActor(projects, pre.projects, last, "project")
        /\ AuthorsFromActor(issues, pre.issues, last, "issue")
        /\ AuthorsFromActor(comments, pre.comments, last, "comment")

\* an issue is updated by its author with a body that names another user
\* as author: the update is applied and the author stays
C15_BodyAuthorIgnored ==
    /\ last.view = "issue" /\ last.detail /\ last.method = "PUT"
    /\ last.outcome = "OK"
    /\ last.identity # None /\ last.identity # last.user
    /\ last.assignee = last.identity
    /\ issues[last.pk].assignee = last.identity
    /\ issues[last.pk].author = last.user

(* ------------------------------- C16 ---------------------------------- *)
\* the path of an item request names a parent other than the stored one
OtherParent(d, r) ==
    /\ Nested(r) /\ r.detail
    /\ IF r.view = "issue"
       THEN /\ r.pk \in DOMAIN d.issues
            /\ d.issues[r.pk].project # r.project_pk
       ELSE /\ r.pk \in DOMAIN d.comments
            /\ \/ d.comments[r.pk].issue # r.issue_pk
               \/ d.issues[d.comments[r.pk].issue].project # r.project_pk

\* the rows of a table after the request r: a row that was there keeps its
\* parent, a new row has the parent the path of r names
ParentsFromPath(now, before, field, path) ==
    \A k \in DOMAIN now :
        now[k][field] = (IF k \in DOMAIN before THEN before[k][field] ELSE path)

C17_MembershipNeverUpdated ==
    last # Idle =>
        /\ ~ /\ \E k \in DOMAIN contributors :
                   contributors[k] < pre.contributors[k]
             /\ \E k \in DOMAIN contributors :
                   contributors[k] > pre.contributors[k]
        /\ (last.view = "contributor" /\ last.detail
                /\ last.method \in {"PUT", "PATCH"})
              => contributors = pre.contributors

(* ------------------------------- C18 ---------------------------------- *)
\* a create or an update of an issue or a comment whose path resolves
NestedSave(d, r) ==
    /\ Nested(r)
    /\ IF r.detail THEN r.method \in {"PUT", "PATCH"} ELSE r.method = "POST"
    /\ ChainResolved(d, r)

\* C18 as stated: a create or update of an issue or comment by an actor who
\* is not a contributor of the project is answered Forbidden, never
\* BadRequest.
C18_NonContributorForbidden ==
    (NestedSave(pre, last) /\ ~Member(pre, last.user, last.project_pk))
    => last.outcome = "Forbidden"

\* C18 amended: such a request stores nothing; a create is Forbidden; an
\* update is Forbidden when the actor is not the item's author and is a
\* BadRequest, raised by the serializer's own membership check, when the
\* actor is the author.
C18_NonContributorRejected ==
    (NestedSave(pre, last) /\ ~Member(pre, last.user, last.project_pk))
    => /\ DB = pre
       /\ last.outcome =
             (IF last.detail /\ ItemAuthor(pre, last) = last.user
                THEN "BadRequest" ELSE "Forbidden")

\* the author of a comment, who has left the project, sends a PATCH of the
\* comment: the serializer's membership check answers
C18_AuthorOutsideGetsBadRequest ==
    /\ last.view = "comment" /\ last.detail /\ last.method = "PATCH"
    /\ ChainResolved(pre, last)
    /\ pre.comments[last.pk].author = last.user
    /\ ~Member(pre, last.user, last.project_pk)
    /\ last.outcome = "BadRequest"
    /\ comments = pre.comments

(* ------------------------------- C19 ---------------------------------- *)
\* C19: a request answered NotFound or Forbidden leaves every project,
\* issue, comment and membership, with its author, assignee and parent, as
\* it was when the request arrived.
C19_RefusalChangesNothing ==
    last.outcome \in {"NotFound", "Forbidden"} => DB = pre

\* a delete of an existing comment by its author through the path of
\* another project is NotFound and the comment stays
C19_NotFoundDeleteKeepsRows ==
    /\ last.view = "comment" /\ last.detail /\ last.method = "DELETE"
    /\ OtherParent(pre, last)
    /\ pre.comments[last.pk].author = last.user
    /\ last.outcome = "NotFound"
    /\ DB = pre
    /\ last.pk \in DOMAIN comments

(* ------------------------------- C20 ---------------------------------- *)
DeletesUser(r) == r.detail /\ r.method = "DELETE"

\* C20: a DELETE of /users/{pk}/ by the user with that pk is answered
\* NoContent; after a DELETE answered NoContent, which only that user gets,
\* the row is still there with a username that starts with "deleted_", an
\* empty email, an unusable password, both consent flags false and age 99,
\* and every other row is as it was; no request removes a User row.
C20_SoftDelete ==
    /\ (DeletesUser(lastUser) /\ lastUser.actor # None
            /\ lastUser.actor = lastUser.pk)
          => lastUser.outcome = "NoContent"
    /\ (DeletesUser(lastUser) /\ lastUser.outcome = "NoContent")
          => /\ lastUser.actor = lastUser.pk
             /\ lastUser.pk \in DOMAIN accounts
             /\ LET row == accounts[lastUser.pk]
                IN  /\ row.username.prefix = "deleted_"
                    /\ row.email = ""
                    /\ ~row.usable_password
                    /\ ~row.can_be_contacted
                    /\ ~row.can_data_be_shared
                    /\ row.age = 99
             /\ \A id \in DOMAIN preAccounts \ {lastUser.pk} :
                   accounts[id] = preAccounts[id]
    /\ lastUser # IdleUser =>
          /\ DOMAIN preAccounts \subseteq DOMAIN accounts
          /\ DOMAIN accounts \subseteq AccountIds

\* a user with an email, a usable password, consents given and age 28
\* deletes the account while another account exists
C20_AccountAnonymized ==
    /\ DeletesUser(lastUser) /\ lastUser.outcome = "NoContent"
    /\ DOMAIN preAccounts = AccountIds
    /\ LET before == preAccounts[lastUser.pk]
       IN  /\ before.username.prefix = ""
           /\ before.email # ""
           /\ before.usable_password
           /\ before.can_be_contacted /\ before.can_data_be_shared
           /\ before.age = 28
    /\ DOMAIN accounts = AccountIds
    /\ accounts[lastUser.pk].username.prefix = "deleted_"
    /\ accounts[lastUser.pk].age = 99

(* ------------------------------- C21 ---------------------------------- *)
\* C21: a request gives a membership to its sender and to nobody else: a
\* pair (U, P) gains a row only through a request sent by U, whoever the
\* body names and whoever the author of P is.  POST /contributors/ is
\* answered Created exactly when its project exists and the sender has no
\* membership of it, the author not being asked, and it then stores one
\* row for (sender, project) and changes no other membership.
C21_MembershipOnlyForSender ==
    last # Idle =>
        /\ \A k \in DOMAIN contributors :
               contributors[k] > pre.contributors[k] => k[1] = last.user
        /\ AddsContributor(last) =>
               /\ last.outcome = "Created"
                     <=> /\ last.project \in DOMAIN pre.projects
                         /\ ~Member(pre, last.user, last.project)
               /\ last.outcome = "Created" =>
                     contributors = [pre.contributors EXCEPT
                                        ![<<last.user, last.project>>] = 1]

\* a user who is not the author of the project sends an add whose body
\* names another user, who has no membership of the project either: the
\* sender becomes a contributor and the named user does not
C21_SenderEnrolledNotNamedUser ==
    /\ AddsContributor(last)
    /\ last.project \in DOMAIN pre.projects
    /\ pre.projects[last.project].author # last.user
    /\ last.identity \in Users \ {last.user}
    /\ ~Member(pre, last.identity, last.project)
    /\ last.outcome = "Created"
    /\ Member(DB, last.user, last.project)
    /\ ~Member(DB, last.identity, last.project)

====
